---- MODULE Spec2Model ----
(***************************************************************************)
(* Bounded contact crawler with session lifecycle management.              *)
(*                                                                         *)
(*   CronJobs/crawler_processor.py   ContactCrawler (traversal + runner)   *)
(*   DatabaseManager/crawler.py      CrawlerManager (session store paths)  *)
(*   DatabaseManager/accounts.py     AccountManager.update_user ($set)     *)
(*   CronJobs/orchestrator.py        one pass over the pending sessions    *)
(*   API/data_models.py, API/app.py  the crawl start request               *)
(*                                                                         *)
(* Every action below is one step of that code that ends with at most one  *)
(* round trip to the session store, so each reachable state is something a *)
(* caller polling the store can observe.                                   *)
(***************************************************************************)
EXTENDS Integers, Sequences, FiniteSets, TLC

VARIABLES
    site,       \* the web site being crawled: page URL -> hrefs of its anchors, in markup order
    sessions,   \* users.<owner>.crawler_sessions : session_id -> persisted session document
    orch,       \* orchestrator passes: pass -> [pc, pending]
    cr,         \* ContactCrawler instances: crawler id -> the object's fields and its thread's position
    storeUp,    \* whether a store round trip currently succeeds (FALSE: it raises)
    now,        \* datetime.now(), in whole seconds
    deleting    \* calls of DELETE /api/crawler/session in progress: call -> [session_id, pc, sessions]

vars == <<site, sessions, orch, cr, storeUp, now, deleting>>

-----------------------------------------------------------------------------
(* Bounds of the model and constants of the program *)

\* Largest depth / max_pages a start request of the model carries.
MaxDepthIn == 2
MaxPagesIn == 4

\* Field(le=3) and Field(le=50) of CrawlerStartRequest; neither field has a lower limit.
DepthLimit == 3
MaxPagesLimit == 50

\* depth and max_pages values the request model accepts (negative ones included).
CrawlerStartRequest ==
    [depth : {d \in -1..MaxDepthIn : d <= DepthLimit},
     max_pages : {n \in -1..MaxPagesIn : n <= MaxPagesLimit}]

-----------------------------------------------------------------------------
(* URLs, markup and sites *)

Url(scheme, netloc, path) == [scheme |-> scheme, netloc |-> netloc, path |-> path]

A(p) == Url("https", "example.test", p)
B(p) == Url("https", "other.test", p)

\* An href is an absolute URL, a path relative to the page, or a mailto: address.
Abs(u) == [kind |-> "abs", url |-> u]
Rel(p) == [kind |-> "rel", path |-> p]
MailTo == [kind |-> "abs", url |-> Url("mailto", "", "x")]

StartUrl == A("/")

Pages == {A("/"), A("/1"), A("/2"), A("/3"), B("/")}

\* A densely connected cyclic site; /3 is two links away from the root, and the
\* only links to the other host's page sit on / and /1.
DenseSite ==
    (A("/")  :> <<Rel("/1"), Abs(A("/2")), Abs(B("/")), MailTo>>) @@
    (A("/1") :> <<Abs(A("/")), Rel("/2"), Abs(B("/")), Rel("/3")>>) @@
    (A("/2") :> <<Rel("/"), Rel("/1"), Rel("/2")>>) @@
    (A("/3") :> <<Rel("/"), Rel("/1")>>) @@
    (B("/")  :> <<Abs(A("/3")), Rel("/")>>)

\* A chain / -> /1 -> /2 -> /3 with a link back to the root at the end.
ChainSite ==
    (A("/")  :> <<Rel("/1")>>) @@
    (A("/1") :> <<Rel("/2")>>) @@
    (A("/2") :> <<Rel("/3")>>) @@
    (A("/3") :> <<Rel("/")>>) @@
    (B("/")  :> <<>>)

\* A root page with one same-host link and one cross-host link.
TwoLinkSite ==
    (A("/")  :> <<Rel("/1"), Abs(B("/"))>>) @@
    (A("/1") :> <<>>) @@
    (A("/2") :> <<>>) @@
    (A("/3") :> <<>>) @@
    (B("/")  :> <<Abs(A("/2"))>>)

Sites == {DenseSite, ChainSite, TwoLinkSite}

\* A root page that links to itself, to one same-host page and to the other host.
SelfLinkSite ==
    (A("/")  :> <<Rel("/"), Rel("/1"), Abs(B("/"))>>) @@
    (A("/1") :> <<>>) @@
    (A("/2") :> <<>>) @@
    (A("/3") :> <<>>) @@
    (B("/")  :> <<>>)

\* urllib.parse.urljoin(base_url, href)
urljoin(base, href) ==
    IF href.kind = "abs" THEN href.url
    ELSE Url(base.scheme, base.netloc, href.path)

\* str.startswith("http") on the joined URL
StartsWithHttp(u) == u.scheme \in {"http", "https"}

Range(s) == {s[i] : i \in DOMAIN s}

\* Faulty variant of get_links: the netloc comparison is missing.
get_links_any_host(hrefs, base_url) ==
    {urljoin(base_url, h) : h \in
        {h \in Range(hrefs) : StartsWithHttp(urljoin(base_url, h))}}

\* ContactCrawler.get_links: a set, so the loop over it has no fixed order.
get_links(hrefs, base_url) ==
    {urljoin(base_url, h) : h \in
        {h \in Range(hrefs) :
            /\ StartsWithHttp(urljoin(base_url, h))
            /\ urljoin(base_url, h).netloc = base_url.netloc}}

-----------------------------------------------------------------------------
(* JSON values, contact records and the extraction collaborator's replies *)

\* A Python str is a sequence of characters.
Str(s) == [t |-> "str", s |-> s]
Null == [t |-> "null"]
Dict(f) == [t |-> "dict", f |-> f]
List(items) == [t |-> "list", items |-> items]

EmailLowerA == Str(<<"a", "@", "x">>)      \* "a@x"
EmailUpperA == Str(<<"A", "@", "X", " ">>) \* "A@X " : same address, other case, trailing blank
EmailB == Str(<<"b", "@", "x">>)           \* "b@x"
Name == Str(<<"n">>)

ContactA == Dict([name |-> Name, email |-> EmailLowerA])
ContactA2 == Dict([name |-> Name, email |-> EmailUpperA])
ContactB == Dict([name |-> Name, email |-> EmailB])
\* Records without an email: one with a phone, one with a name only, and one
\* whose email is JSON null.
ContactPhone == Dict([name |-> Name, phone |-> Str(<<"5">>)])
ContactNameOnly == Dict([name |-> Name])
ContactNullEmail == Dict([name |-> Name, email |-> Null])

\* The reply of openai_route is text: a sequence of pieces, each a markdown
\* fence, a well-formed JSON document, or something that is no JSON.
FenceOpen == [tok |-> "fence-json"]
FenceClose == [tok |-> "fence"]
Json(v) == [tok |-> "json", v |-> v]
Junk == [tok |-> "not json"]

Replies ==
    { <<FenceOpen,
        Json(List(<<ContactA, ContactA2, ContactB, ContactPhone, ContactNameOnly>>)),
        FenceClose>>,
      <<Json(List(<<Str(<<"x">>)>>))>>,
      <<Json(Dict([name |-> Name]))>>,
      <<Junk>>,
      <<Json(List(<<ContactNullEmail>>))>> }

\* response.status_code of a requests.get call that returned
StatusCodes == {200, 404}

\* new_contacts.replace(<fence>json, '').replace(<fence>, ''), <fence> being three backquotes
StripFences(text) == SelectSeq(text, LAMBDA piece : piece.tok \notin {"fence-json", "fence"})

\* json.loads: the parsed value, or JSONDecodeError.
json_loads(text) ==
    IF Len(text) = 1 /\ text[1].tok = "json"
    THEN [ok |-> TRUE, v |-> text[1].v]
    ELSE [ok |-> FALSE]

\* Faulty variant of lower: the case is kept.
lower_keeps_case(s) == s

\* str.lower()
LowerChar(ch) == CASE ch = "A" -> "a" [] ch = "B" -> "b" [] ch = "X" -> "x" [] OTHER -> ch
lower(s) == [i \in DOMAIN s |-> LowerChar(s[i])]

\* str.strip()
RECURSIVE lstrip(_)
lstrip(s) == IF s # <<>> /\ Head(s) = " " THEN lstrip(Tail(s)) ELSE s
RECURSIVE rstrip(_)
rstrip(s) == IF s # <<>> /\ s[Len(s)] = " " THEN rstrip(SubSeq(s, 1, Len(s) - 1)) ELSE s
strip(s) == rstrip(lstrip(s))

\* bool(value) for the JSON values above
Truthy(v) ==
    CASE v.t = "str" -> v.s # <<>>
      [] v.t = "null" -> FALSE
      [] v.t = "dict" -> DOMAIN v.f # {}
      [] v.t = "list" -> v.items # <<>>

\* contact.get("email", "") : only a dict has .get
HasGet(contact) == contact.t = "dict"
GetEmail(contact) ==
    IF "email" \in DOMAIN contact.f THEN contact.f.email ELSE Str(<<>>)

\* _update_progress: the snapshot, or an AttributeError when an element of
\* all_contacts is no dict.
ProgressRaises(visited, all_contacts) ==
    \E i \in DOMAIN all_contacts : ~HasGet(all_contacts[i])

ProgressData(visited, all_contacts) ==
    [pages_visited |-> Cardinality(visited),
     total_contacts |-> Len(all_contacts),
     unique_contacts |-> Cardinality(
        {GetEmail(all_contacts[i]) : i \in
            {j \in DOMAIN all_contacts : Truthy(GetEmail(all_contacts[j]))}})]

\* The dedup loop of _run_crawler over all_contacts[i..], with the emails seen
\* and the contacts kept so far. Calling .lower() on an email that is no str raises.
RECURSIVE DedupFrom(_, _, _, _)
DedupFrom(all_contacts, i, seen_emails, unique_contacts) ==
    IF i > Len(all_contacts)
    THEN [raised |-> FALSE, unique_contacts |-> unique_contacts]
    ELSE LET contact == all_contacts[i] IN
         IF contact.t = "dict" /\ "email" \in DOMAIN contact.f
         THEN IF contact.f.email.t # "str"
              THEN [raised |-> TRUE, unique_contacts |-> unique_contacts]
              ELSE LET email == strip(lower(contact.f.email.s)) IN
                   IF email # <<>> /\ email \notin seen_emails
                   THEN DedupFrom(all_contacts, i + 1, seen_emails \cup {email},
                                  Append(unique_contacts, contact))
                   ELSE DedupFrom(all_contacts, i + 1, seen_emails, unique_contacts)
         ELSE DedupFrom(all_contacts, i + 1, seen_emails, unique_contacts)

Dedup(all_contacts) == DedupFrom(all_contacts, 1, {}, <<>>)

-----------------------------------------------------------------------------
(* The session store: CrawlerManager on top of AccountManager.update_user *)

Absent == <<>>

\* MongoDB $set of crawler_sessions.<session_id>.<field>: the path is created
\* when it does not exist, the rest of the document is left alone.
SetField(S, session_id, field, value) ==
    LET doc == IF session_id \in DOMAIN S THEN S[session_id] ELSE Absent
    IN (session_id :> ((field :> value) @@ doc)) @@ S

\* datetime.now().strftime('%Y%m%d_%H%M%S') : one id per second of the clock
SessionIdAt(second) == <<"session", second>>

initialize_crawler_session(S, session_id, start_url, depth, max_pages) ==
    (session_id :>
        [start_url |-> start_url,
         depth |-> depth,
         max_pages |-> max_pages,
         status |-> "initialized",
         start_time |-> "set",
         progress |-> [pages_visited |-> 0, total_contacts |-> 0, unique_contacts |-> 0],
         contacts |-> <<>>,
         logs |-> <<>>]) @@ S

add_crawler_log(S, session_id, log_id, message) ==
    LET doc == IF session_id \in DOMAIN S THEN S[session_id] ELSE Absent
        logs == IF "logs" \in DOMAIN doc THEN doc.logs ELSE <<>>
    IN SetField(S, session_id, "logs", (log_id :> message) @@ logs)

update_crawler_progress(S, session_id, progress_data) ==
    SetField(S, session_id, "progress", progress_data)

update_crawler_contacts(S, session_id, contacts) ==
    SetField(S, session_id, "contacts", contacts)

\* Faulty variant of update_crawler_session: the owner's crawler_sessions is
\* replaced by a dict that holds the one session.
update_crawler_session_replaces_dict(S, session_id, update_data) ==
    LET doc == IF session_id \in DOMAIN S THEN S[session_id] ELSE Absent
    IN (session_id :> (update_data @@ doc))

\* One $set carrying every key of update_data.
update_crawler_session(S, session_id, update_data) ==
    LET doc == IF session_id \in DOMAIN S THEN S[session_id] ELSE Absent
    IN (session_id :> (update_data @@ doc)) @@ S

\* delete_crawler_session: the dict written back, built from the
\* crawler_sessions that was read.
delete_crawler_session(S, session_id) ==
    [k \in DOMAIN S \ {session_id} |-> S[k]]

-----------------------------------------------------------------------------
(* ContactCrawler *)

\* ContactCrawler.__init__ ; pc is the position of the crawler's thread, stack
\* the frames of crawl that are inside their link loop, arg the url and depth
\* of the call of crawl being made, response, soup and parsed_contacts the
\* locals of that call, and requests the history of the requests.get calls:
\* url, depth of the call, and whether the call returned (ok) or raised.
NewCrawler(start_url, session_id, depth, max_pages) ==
    [start_url |-> start_url,
     session_id |-> session_id,
     depth |-> depth,
     max_pages |-> max_pages,
     visited |-> {},
     all_contacts |-> <<>>,
     log_counter |-> 0,
     log_messages |-> <<>>,
     pc |-> "start",
     stack |-> <<>>,
     arg |-> <<>>,
     soup |-> <<>>,
     response |-> <<>>,
     parsed_contacts |-> <<>>,
     requests |-> <<>>]

\* str(self.log_counter)
LogKey(n) == ToString(n)

\* log_update: bump the counter, remember the line, write it to the store.
\* up is whether the store write succeeds; when it raises the counter and
\* log_messages have already changed.
log_update(self, S, up, message) ==
    LET n == self.log_counter + 1 IN
    [self |-> [self EXCEPT !.log_counter = n,
                           !.log_messages = (LogKey(n) :> message) @@ @],
     sessions |-> IF up THEN add_crawler_log(S, self.session_id, LogKey(n), message) ELSE S,
     raised |-> ~up]

\* The position after a call of crawl returns: the caller's link loop, or the
\* rest of _run_crawler when the call was the one for start_url.
AfterReturn(self) == IF self.stack = <<>> THEN "dedup" ELSE "loop"

\* An exception that leaves crawl unwinds every frame into _run_crawler's handler.
Unwind(self) ==
    [self EXCEPT !.pc = "handler", !.stack = <<>>, !.arg = <<>>, !.soup = <<>>,
                 !.response = <<>>, !.parsed_contacts = <<>>]

\* len(self.visited) >= self.max_pages
MaxPagesReached(self) == Cardinality(self.visited) >= self.max_pages

\* The log lines the crawler writes.
Line(kind) == [line |-> kind]
UrlLine(url, error) == [line |-> "URL", url |-> url, error |-> error]

\* One step of crawler c: its object becomes self, the store becomes S.
Step(c, self, S) ==
    /\ cr' = [cr EXCEPT ![c] = self]
    /\ sessions' = S
    /\ UNCHANGED <<site, orch, storeUp, now, deleting>>

\* Crawler c exists and its thread is at position pc.
At(c, pc) == c \in DOMAIN cr /\ cr[c].pc = pc

\* crawl returns to its caller.
Return(self) ==
    [self EXCEPT !.pc = AfterReturn(self), !.arg = <<>>, !.soup = <<>>,
                 !.response = <<>>, !.parsed_contacts = <<>>]

\* _run_crawler: update_crawler_session({"status": "running"})
RunCrawler(c) ==
    /\ At(c, "start")
    /\ IF storeUp
       THEN Step(c, [cr[c] EXCEPT !.pc = "startlog"],
                 update_crawler_session(sessions, cr[c].session_id, [status |-> "running"]))
       ELSE Step(c, Unwind(cr[c]), sessions)

\* _run_crawler: the StartingCrawler line, then the call crawl(start_url, depth)
StartLog(c) ==
    /\ At(c, "startlog")
    /\ LET r == log_update(cr[c], sessions, storeUp, Line("StartingCrawler")) IN
       IF r.raised
       THEN Step(c, Unwind(r.self), r.sessions)
       ELSE Step(c, [r.self EXCEPT !.pc = "call",
                                   !.arg = [url |-> cr[c].start_url, depth |-> cr[c].depth]],
                 r.sessions)

\* crawl, entry: the page limit is reached, log it and return
CrawlMaxPages(c) ==
    /\ At(c, "call")
    /\ MaxPagesReached(cr[c])
    /\ LET r == log_update(cr[c], sessions, storeUp, Line("MaxPagesReached")) IN
       IF r.raised
       THEN Step(c, Unwind(r.self), r.sessions)
       ELSE Step(c, Return(r.self), r.sessions)

\* crawl, entry: url in self.visited or depth < 0
CrawlSkip(c) ==
    /\ At(c, "call")
    /\ ~MaxPagesReached(cr[c])
    /\ cr[c].arg.url \in cr[c].visited \/ cr[c].arg.depth < 0
    /\ Step(c, Return(cr[c]), sessions)

\* Faulty variant of CrawlVisit: the url is not added to self.visited.
CrawlVisitForgets(c) ==
    /\ At(c, "call")
    /\ ~MaxPagesReached(cr[c])
    /\ cr[c].arg.url \notin cr[c].visited
    /\ cr[c].arg.depth >= 0
    /\ Step(c, [cr[c] EXCEPT !.pc = "fetch"], sessions)

\* crawl, entry: self.visited.add(url)
CrawlVisit(c) ==
    /\ At(c, "call")
    /\ ~MaxPagesReached(cr[c])
    /\ cr[c].arg.url \notin cr[c].visited
    /\ cr[c].arg.depth >= 0
    /\ Step(c, [cr[c] EXCEPT !.visited = @ \cup {cr[c].arg.url}, !.pc = "fetch"], sessions)

\* requests.get raises: control goes to the except clause of crawl
FetchRaises(c) ==
    /\ At(c, "fetch")
    /\ Step(c, [cr[c] EXCEPT !.requests = Append(@, [url |-> cr[c].arg.url, depth |-> cr[c].arg.depth, ok |-> FALSE]),
                             !.pc = "except"],
            sessions)

\* requests.get returns a response of whatever status, openai_route raises
ExtractRaises(c) ==
    /\ At(c, "fetch")
    /\ \E status_code \in StatusCodes :
        Step(c, [cr[c] EXCEPT !.requests = Append(@, [url |-> cr[c].arg.url, depth |-> cr[c].arg.depth, ok |-> TRUE]),
                             !.response = [status_code |-> status_code],
                             !.soup = site[cr[c].arg.url],
                             !.pc = "except"],
             sessions)

\* requests.get returns a response of whatever status and openai_route
\* returns: strip the fences, json.loads, and for a list extend all_contacts
\* and write the contact list
ExtractContacts(c) ==
    /\ At(c, "fetch")
    /\ \E reply \in Replies, status_code \in StatusCodes :
        LET got == [cr[c] EXCEPT
                            !.requests = Append(@, [url |-> cr[c].arg.url, depth |-> cr[c].arg.depth, ok |-> TRUE]),
                            !.response = [status_code |-> status_code],
                            !.soup = site[cr[c].arg.url]]
            parsed == json_loads(StripFences(reply))
            fetched == IF parsed.ok THEN [got EXCEPT !.parsed_contacts = parsed.v] ELSE got
        IN  IF ~parsed.ok
            THEN Step(c, [fetched EXCEPT !.pc = "jsonerr"], sessions)
            ELSE IF parsed.v.t = "list"
            THEN LET extended == [fetched EXCEPT !.all_contacts = @ \o parsed.v.items] IN
                 IF storeUp
                 THEN Step(c, [extended EXCEPT !.pc = "visitlog"],
                           update_crawler_contacts(sessions, cr[c].session_id,
                                                   extended.all_contacts))
                 ELSE Step(c, [extended EXCEPT !.pc = "except"], sessions)
            ELSE Step(c, [fetched EXCEPT !.pc = "visitlog"], sessions)

\* Faulty variant of LogJsonError: the parse error is logged and crawl goes on
\* with the page as if it had parsed.
LogJsonErrorGoesOn(c) ==
    /\ At(c, "jsonerr")
    /\ LET r == log_update(cr[c], sessions, storeUp, Line("JSON Parse Error")) IN
       Step(c, [r.self EXCEPT !.pc = "visitlog"], r.sessions)

\* except json.JSONDecodeError: log it and return; a raise of that log write
\* is caught by the outer except clause
LogJsonError(c) ==
    /\ At(c, "jsonerr")
    /\ LET r == log_update(cr[c], sessions, storeUp, Line("JSON Parse Error")) IN
       IF r.raised
       THEN Step(c, [r.self EXCEPT !.pc = "except"], r.sessions)
       ELSE Step(c, Return(r.self), r.sessions)

\* Faulty variant of LogFetchError: the except clause logs and re-raises.
LogFetchErrorRaises(c) ==
    /\ At(c, "except")
    /\ LET r == log_update(cr[c], sessions, storeUp, UrlLine(cr[c].arg.url, TRUE)) IN
       Step(c, Unwind(r.self), r.sessions)

\* except Exception: log the page's line with the error and return
LogFetchError(c) ==
    /\ At(c, "except")
    /\ LET r == log_update(cr[c], sessions, storeUp, UrlLine(cr[c].arg.url, TRUE)) IN
       IF r.raised
       THEN Step(c, Unwind(r.self), r.sessions)
       ELSE Step(c, Return(r.self), r.sessions)

\* self.log_update(log_items) after the try block
LogVisit(c) ==
    /\ At(c, "visitlog")
    /\ LET r == log_update(cr[c], sessions, storeUp, UrlLine(cr[c].arg.url, FALSE)) IN
       IF r.raised
       THEN Step(c, Unwind(r.self), r.sessions)
       ELSE Step(c, [r.self EXCEPT !.pc = "progress"], r.sessions)

\* Faulty variant of UpdateProgress: the loop over the page's links is entered
\* before the progress snapshot is written.
UpdateProgressAfterLinks(c) ==
    /\ At(c, "progress")
    /\ IF ProgressRaises(cr[c].visited, cr[c].all_contacts) \/ ~storeUp
       THEN Step(c, Unwind(cr[c]), sessions)
       ELSE Step(c, [cr[c] EXCEPT
                        !.stack = Append(@, [url |-> cr[c].arg.url,
                                             depth |-> cr[c].arg.depth,
                                             links |-> get_links(cr[c].soup, cr[c].arg.url)]),
                        !.arg = <<>>,
                        !.soup = <<>>,
                        !.response = <<>>,
                        !.parsed_contacts = <<>>,
                        !.pc = "loop"],
                 sessions)

\* self._update_progress(), then get_links for the loop over the page's links
UpdateProgress(c) ==
    /\ At(c, "progress")
    /\ IF ProgressRaises(cr[c].visited, cr[c].all_contacts) \/ ~storeUp
       THEN Step(c, Unwind(cr[c]), sessions)
       ELSE Step(c, [cr[c] EXCEPT
                        !.stack = Append(@, [url |-> cr[c].arg.url,
                                             depth |-> cr[c].arg.depth,
                                             links |-> get_links(cr[c].soup, cr[c].arg.url)]),
                        !.arg = <<>>,
                        !.soup = <<>>,
                        !.response = <<>>,
                        !.parsed_contacts = <<>>,
                        !.pc = "loop"],
                 update_crawler_progress(sessions, cr[c].session_id,
                    ProgressData(cr[c].visited, cr[c].all_contacts)))

\* Faulty variant of ChildDepth: the recursive call passes depth on unchanged.
ChildDepthSame(depth) == depth

\* the depth argument of the recursive call: depth - 1
ChildDepth(depth) == depth - 1

Top(self) == self.stack[Len(self.stack)]
Pop(self) == [self EXCEPT !.stack = SubSeq(@, 1, Len(@) - 1)]

\* the for loop has no link left: crawl returns
LoopDone(c) ==
    /\ At(c, "loop")
    /\ Top(cr[c]).links = {}
    /\ Step(c, Return(Pop(cr[c])), sessions)

\* the for loop: the page limit is reached, log it and break
LoopMaxPages(c) ==
    /\ At(c, "loop")
    /\ Top(cr[c]).links # {}
    /\ MaxPagesReached(cr[c])
    /\ LET r == log_update(cr[c], sessions, storeUp, Line("MaxPagesReached further")) IN
       IF r.raised
       THEN Step(c, Unwind(r.self), r.sessions)
       ELSE Step(c, Return(Pop(r.self)), r.sessions)

\* the for loop: the next link of the set, in whatever order the set yields,
\* and the call self.crawl(link, depth - 1)
LoopNext(c) ==
    /\ At(c, "loop")
    /\ Top(cr[c]).links # {}
    /\ ~MaxPagesReached(cr[c])
    /\ \E link \in Top(cr[c]).links :
        Step(c, [cr[c] EXCEPT !.stack[Len(cr[c].stack)].links = @ \ {link},
                              !.arg = [url |-> link, depth |-> ChildDepth(Top(cr[c]).depth)],
                              !.pc = "call"],
             sessions)

\* _run_crawler after crawl: the dedup loop and the FinalResults line
Finalize(c) ==
    /\ At(c, "dedup")
    /\ IF Dedup(cr[c].all_contacts).raised
       THEN Step(c, Unwind(cr[c]), sessions)
       ELSE LET r == log_update(cr[c], sessions, storeUp, Line("FinalResults")) IN
            IF r.raised
            THEN Step(c, Unwind(r.self), r.sessions)
            ELSE Step(c, [r.self EXCEPT !.pc = "final"], r.sessions)

\* The update_data of the final write.
FinalState(self) ==
    [status |-> "completed",
     end_time |-> "set",
     completed_at |-> "set",
     progress |-> [pages_visited |-> Cardinality(self.visited),
                   total_contacts |-> Len(self.all_contacts),
                   unique_contacts |-> Len(Dedup(self.all_contacts).unique_contacts)],
     contacts |-> self.all_contacts,
     logs |-> self.log_messages]

\* _run_crawler: update_crawler_session with the final state
WriteCompleted(c) ==
    /\ At(c, "final")
    /\ IF storeUp
       THEN Step(c, [cr[c] EXCEPT !.pc = "done"],
                 update_crawler_session(sessions, cr[c].session_id, FinalState(cr[c])))
       ELSE Step(c, Unwind(cr[c]), sessions)

\* except Exception in _run_crawler: the Error line. A raise of this write
\* leaves the handler, and the thread ends.
LogRunError(c) ==
    /\ At(c, "handler")
    /\ LET r == log_update(cr[c], sessions, storeUp, Line("Error")) IN
       IF r.raised
       THEN Step(c, [r.self EXCEPT !.pc = "raised"], r.sessions)
       ELSE Step(c, [r.self EXCEPT !.pc = "failwrite"], r.sessions)

\* Faulty variant of WriteFailed: the handler re-raises without the status write.
WriteFailedKeepsStatus(c) ==
    /\ At(c, "failwrite")
    /\ Step(c, [cr[c] EXCEPT !.pc = "raised"], sessions)

\* except Exception in _run_crawler: status failed, then raise
WriteFailed(c) ==
    /\ At(c, "failwrite")
    /\ IF storeUp
       THEN Step(c, [cr[c] EXCEPT !.pc = "raised"],
                 update_crawler_session(sessions, cr[c].session_id, [status |-> "failed"]))
       ELSE Step(c, [cr[c] EXCEPT !.pc = "raised"], sessions)

-----------------------------------------------------------------------------
(* The crawl start request and the orchestrator *)

\* POST /api/crawler/start at clock second `second`: a store error is answered
\* with a 500 and changes nothing.
start_crawler(request, second) ==
    /\ storeUp
    /\ sessions' = initialize_crawler_session(sessions, SessionIdAt(second), StartUrl,
                                              request.depth, request.max_pages)
    /\ UNCHANGED <<site, orch, cr, storeUp, now, deleting>>

\* get_user_data: the sessions whose status is "initialized", as read now. A
\* store error, or a session document without a status, ends the pass.
get_user_data(p) ==
    /\ p \in DOMAIN orch
    /\ orch[p].pc = "idle"
    /\ IF storeUp /\ \A id \in DOMAIN sessions : "status" \in DOMAIN sessions[id]
       THEN orch' = [orch EXCEPT ![p] =
                        [pc |-> "loaded",
                         pending |-> [id \in {i \in DOMAIN sessions :
                                                sessions[i].status = "initialized"}
                                        |-> sessions[id]]]]
       ELSE orch' = [orch EXCEPT ![p] = [pc |-> "done", pending |-> <<>>]]
    /\ UNCHANGED <<site, sessions, cr, storeUp, now, deleting>>

\* process_pending_crawler_sessions: one turn of the loop, ContactCrawler(...).run()
process_pending_crawler_sessions(p) ==
    /\ p \in DOMAIN orch
    /\ orch[p].pc = "loaded"
    /\ \E id \in DOMAIN orch[p].pending :
        LET session == orch[p].pending[id] IN
        /\ cr' = (<<p, id>> :> NewCrawler(session.start_url, id, session.depth,
                                          session.max_pages)) @@ cr
        /\ orch' = [orch EXCEPT ![p].pending =
                        [i \in DOMAIN orch[p].pending \ {id} |-> orch[p].pending[i]]]
    /\ UNCHANGED <<site, sessions, storeUp, now, deleting>>

-----------------------------------------------------------------------------
(* Specifications *)

\* The orchestrator passes, clock seconds and crawler objects of the model.
Passes == {"pass1", "pass2"}
Seconds == {0}
CrawlerIds == Passes \X {SessionIdAt(t) : t \in Seconds}

\* One step of the thread of crawler c.
CrawlerStep(c) ==
    \/ RunCrawler(c)
    \/ StartLog(c)
    \/ CrawlMaxPages(c)
    \/ CrawlSkip(c)
    \/ CrawlVisit(c)
    \/ FetchRaises(c)
    \/ ExtractRaises(c)
    \/ ExtractContacts(c)
    \/ LogJsonError(c)
    \/ LogFetchError(c)
    \/ LogVisit(c)
    \/ UpdateProgress(c)
    \/ LoopDone(c)
    \/ LoopMaxPages(c)
    \/ LoopNext(c)
    \/ Finalize(c)
    \/ WriteCompleted(c)
    \/ LogRunError(c)
    \/ WriteFailed(c)

\* The threads started by ContactCrawler.run
CrawlerNext == \E c \in CrawlerIds : CrawlerStep(c)

\* The one start request of Spec, made while the owner has no session.
FirstRequest ==
    /\ sessions = <<>>
    /\ \E request \in CrawlerStartRequest : start_crawler(request, 0)

OrchestratorNext ==
    \E p \in Passes : get_user_data(p) \/ process_pending_crawler_sessions(p)

Init ==
    /\ site \in Sites
    /\ sessions = <<>>
    /\ orch = [p \in {"pass1"} |-> [pc |-> "idle", pending |-> <<>>]]
    /\ cr = <<>>
    /\ storeUp = TRUE
    /\ now = 0
    /\ deleting = <<>>

\* One owner, one start request, one orchestrator pass, a store that answers.
Next ==
    \/ FirstRequest
    \/ OrchestratorNext
    \/ CrawlerNext

Spec == Init /\ [][Next]_vars

\* Spec with the scheduling of threads: a started crawler thread keeps running.
LiveSpec == Spec /\ \A c \in CrawlerIds : WF_vars(CrawlerStep(c))

\* The store starts or stops answering (pymongo raising on find_one/update_one).
StoreFlips ==
    /\ storeUp' = ~storeUp
    /\ UNCHANGED <<site, sessions, orch, cr, now, deleting>>

NextFault == Next \/ StoreFlips

\* Spec with a store whose round trips may raise.
SpecFault == Init /\ [][NextFault]_vars

\* Two orchestrator processes, each making its one pass, on the smallest site.
InitPasses ==
    /\ site = TwoLinkSite
    /\ sessions = <<>>
    /\ orch = [p \in Passes |-> [pc |-> "idle", pending |-> <<>>]]
    /\ cr = <<>>
    /\ storeUp = TRUE
    /\ now = 0
    /\ deleting = <<>>

SpecPasses == InitPasses /\ [][Next]_vars

-----------------------------------------------------------------------------
(* Several sessions of one owner *)

\* The clock seconds of the specifications below, and the crawler objects one
\* orchestrator pass can start for the sessions created in them.
Clock == {0, 1}
OwnerCrawlerIds == {"pass1"} \X {SessionIdAt(t) : t \in Clock}

OwnerCrawlerNext == \E c \in OwnerCrawlerIds : CrawlerStep(c)

\* The clock moves on to the next second.
Tick ==
    /\ now + 1 \in Clock
    /\ now' = now + 1
    /\ UNCHANGED <<site, sessions, orch, cr, storeUp, deleting>>

\* The start requests of the owner: depth 1, and max_pages 2 or 0.
OwnerRequests == {r \in CrawlerStartRequest : r.depth = 1 /\ r.max_pages \in {0, 2}}

\* A start request in a second in which the owner has created no session yet.
NextRequest ==
    /\ SessionIdAt(now) \notin DOMAIN sessions
    /\ \E request \in OwnerRequests : start_crawler(request, now)

InitOwner ==
    /\ site = SelfLinkSite
    /\ sessions = <<>>
    /\ orch = [p \in {"pass1"} |-> [pc |-> "idle", pending |-> <<>>]]
    /\ cr = <<>>
    /\ storeUp = TRUE
    /\ now = 0
    /\ deleting = <<>>

\* One owner who creates a session in each of two seconds, and one
\* orchestrator pass that starts a crawler thread for every session it finds.
NextTwo ==
    \/ NextRequest
    \/ Tick
    \/ OrchestratorNext
    \/ OwnerCrawlerNext

SpecTwo == InitOwner /\ [][NextTwo]_vars

\* The calls of DELETE /api/crawler/session of the model and the session ids
\* they may name.
DeleteCalls == {"del1"}
OwnerSessionIds == {SessionIdAt(t) : t \in Clock}

\* The session ids a call of the delete endpoint may carry: those of the
\* owner's sessions and the one of a second before the clock of the model
\* starts, under which the owner never had a session.
DeleteTargets == OwnerSessionIds \cup {SessionIdAt(-1)}

\* The answer of the delete endpoint: the status code and the message of its
\* JSONResponse, the message being the fixed text of app.py:688 or 693, or
\* str(e) of the exception caught at app.py:695.
NotFoundMessage == "Crawler session not found"
DeletedMessage == "Crawler session deleted successfully"
ExceptionMessage == "str(e)"

Answered(session_id, status_code, message) ==
    [session_id |-> session_id, pc |-> "answered", status_code |-> status_code,
     message |-> message]

\* DELETE /api/crawler/session, up to the read of the owner's document:
\* get_user raising and a session id that is not in crawler_sessions are both
\* answered with 404; otherwise the dict without the session is built.
DeleteSessionRead(q, session_id) ==
    /\ q \notin DOMAIN deleting
    /\ deleting' = (q :>
            IF ~storeUp
            THEN Answered(session_id, 404, ExceptionMessage)
            ELSE IF session_id \notin DOMAIN sessions
            THEN Answered(session_id, 404, NotFoundMessage)
            ELSE [session_id |-> session_id, pc |-> "read",
                  new_sessions |-> delete_crawler_session(sessions, session_id)]) @@ deleting
    /\ UNCHANGED <<site, sessions, orch, cr, storeUp, now>>

\* DELETE /api/crawler/session, the write: update_user with
\* {"crawler_sessions": new_sessions}; a raise is answered with 404.
DeleteSessionWrite(q) ==
    /\ q \in DOMAIN deleting
    /\ deleting[q].pc = "read"
    /\ IF storeUp
       THEN /\ sessions' = deleting[q].new_sessions
            /\ deleting' = [deleting EXCEPT ![q] =
                                Answered(deleting[q].session_id, 200, DeletedMessage)]
       ELSE /\ sessions' = sessions
            /\ deleting' = [deleting EXCEPT ![q] =
                                Answered(deleting[q].session_id, 404, ExceptionMessage)]
    /\ UNCHANGED <<site, orch, cr, storeUp, now>>

DeleteNext ==
    \/ \E q \in DeleteCalls, session_id \in DeleteTargets : DeleteSessionRead(q, session_id)
    \/ \E q \in DeleteCalls : DeleteSessionWrite(q)

\* The owner has created a session in second 0, the orchestrator pass has read
\* it as pending, and the owner has then created a second session in second 1.
InitDelete ==
    /\ site = SelfLinkSite
    /\ \E first \in OwnerRequests, second \in OwnerRequests :
        LET one == initialize_crawler_session(<<>>, SessionIdAt(0), StartUrl,
                                              first.depth, first.max_pages)
        IN  /\ sessions = initialize_crawler_session(one, SessionIdAt(1), StartUrl,
                                                     second.depth, second.max_pages)
            /\ orch = [p \in {"pass1"} |-> [pc |-> "loaded", pending |-> one]]
    /\ cr = <<>>
    /\ storeUp = TRUE
    /\ now = 1
    /\ deleting = <<>>

\* The pass starts the crawler of the first session; its thread runs while
\* one call of the delete endpoint is made.
NextDelete ==
    \/ \E p \in Passes : process_pending_crawler_sessions(p)
    \/ OwnerCrawlerNext
    \/ DeleteNext

SpecDelete == InitDelete /\ [][NextDelete]_vars

\* SpecDelete with a store whose round trips may raise.
NextDeleteFault == NextDelete \/ StoreFlips

SpecDeleteFault == InitDelete /\ [][NextDeleteFault]_vars

\* A start request at any moment of the current second.
AnyRequest == \E request \in OwnerRequests : start_crawler(request, now)

\* The owner makes start requests within one second of the clock while the
\* orchestrator pass and the crawler thread it starts run.
NextCreate ==
    \/ AnyRequest
    \/ OrchestratorNext
    \/ OwnerCrawlerNext

SpecCreate == InitOwner /\ [][NextCreate]_vars

-----------------------------------------------------------------------------
(* Claims *)

Statuses == {"initialized", "running", "completed", "failed"}
Terminal == {"completed", "failed"}

\* The session document crawler c writes to.
SessionOf(c) == sessions[cr[c].session_id]

\* The urls of the requests.get calls of crawler c.
Fetched(c) == {cr[c].requests[i].url : i \in DOMAIN cr[c].requests}

\* C1 - At every observation of a persisted session progress.pages_visited is
\* at most max_pages, for every max_pages the start request accepts.
C1_PagesVisitedWithinMaxPages ==
    \A id \in DOMAIN sessions :
        sessions[id].progress.pages_visited <= sessions[id].max_pages

\* C1 - What the traversal does keep: self.visited never grows beyond a
\* max_pages that is not negative, in the crawler and in every persisted snapshot.
C1_VisitedWithinNonNegativeMaxPages ==
    /\ \A c \in DOMAIN cr :
        cr[c].max_pages >= 0 => Cardinality(cr[c].visited) <= cr[c].max_pages
    /\ \A id \in DOMAIN sessions :
        sessions[id].max_pages >= 0 =>
            sessions[id].progress.pages_visited <= sessions[id].max_pages

StatusMoves ==
    {<<"initialized", "running">>, <<"running", "completed">>, <<"running", "failed">>}

\* C3 - A session's persisted status changes only along initialized -> running,
\* running -> completed, running -> failed: a terminal status never changes and
\* no session goes back to initialized or running.
C3_StatusForwardOnly ==
    [][\A id \in DOMAIN sessions :
        /\ id \in DOMAIN sessions'
        /\ \/ sessions'[id].status = sessions[id].status
           \/ <<sessions[id].status, sessions'[id].status>> \in StatusMoves]_vars

\* The same-host links of the page at url u, read off the site's markup.
SameHostTargets(u) ==
    {v \in Pages : /\ v.netloc = u.netloc
                   /\ \E i \in DOMAIN site[u] :
                        \/ site[u][i] = Abs(v)
                        \/ site[u][i] = Rel(v.path)}

\* The pages at most k same-host links away from url from.
RECURSIVE WithinHops(_, _)
WithinHops(from, k) ==
    IF k < 0 THEN {}
    ELSE IF k = 0 THEN {from}
    ELSE LET near == WithinHops(from, k - 1)
         IN near \cup UNION {SameHostTargets(u) : u \in near}

\* C4 - Every page fetched is at most depth same-host links away from
\* start_url; with a negative depth nothing is fetched.
C4_FetchedWithinDepth ==
    \A c \in DOMAIN cr : Fetched(c) \subseteq WithinHops(cr[c].start_url, cr[c].depth)

\* A finished run over the chain with depth 2 that fetched /2, the last page
\* within reach, while /3 lies one link further.
C4_Witness ==
    \E c \in DOMAIN cr :
        /\ site = ChainSite
        /\ cr[c].depth = 2
        /\ cr[c].pc = "done"
        /\ A("/2") \in Fetched(c)
        /\ A("/3") \notin WithinHops(cr[c].start_url, cr[c].depth)

\* C5 - Within one run no url is passed to requests.get twice.
C5_FetchedAtMostOnce ==
    \A c \in DOMAIN cr :
        \A i, j \in DOMAIN cr[c].requests :
            cr[c].requests[i].url = cr[c].requests[j].url => i = j

\* A finished run over the cyclic site: / was fetched, then /2, then from /2
\* the page /1, whose fetch raised. The page limit was never reached, so the
\* loop over the links of / came to /1 again afterwards, at a depth that
\* allows a visit.
C5_Witness ==
    \E c \in DOMAIN cr :
        /\ site = DenseSite
        /\ cr[c].pc = "done"
        /\ cr[c].depth = 2
        /\ Len(cr[c].requests) = 3
        /\ cr[c].requests[2] = [url |-> A("/2"), depth |-> 1, ok |-> TRUE]
        /\ cr[c].requests[3] = [url |-> A("/1"), depth |-> 0, ok |-> FALSE]
        /\ Cardinality(cr[c].visited) < cr[c].max_pages

\* The lines crawler c has logged.
Logged(c) == {cr[c].log_messages[k] : k \in DOMAIN cr[c].log_messages}

\* C6 - Every url handed to a crawl step or fetched has the netloc of
\* start_url; and on the two-link site with depth 1 and max_pages 2 a run that
\* got to the links of the root ends completed having visited exactly the root
\* and its same-host link.
C6_SameHostOnly ==
    \A c \in DOMAIN cr :
        /\ \A u \in Fetched(c) \cup cr[c].visited : u.netloc = cr[c].start_url.netloc
        /\ cr[c].arg # <<>> => cr[c].arg.url.netloc = cr[c].start_url.netloc
        /\ ( /\ site = TwoLinkSite
             /\ cr[c].depth = 1
             /\ cr[c].max_pages = 2
             /\ cr[c].pc = "done"
             /\ UrlLine(StartUrl, FALSE) \in Logged(c) )
           => /\ cr[c].visited = {A("/"), A("/1")}
              /\ Fetched(c) = {A("/"), A("/1")}
              /\ SessionOf(c).status = "completed"

\* The scenario: two-link site, depth 1, max_pages 2, both pages fetched, run over.
C6_Witness ==
    \E c \in DOMAIN cr :
        /\ site = TwoLinkSite
        /\ cr[c].depth = 1
        /\ cr[c].max_pages = 2
        /\ cr[c].pc = "done"
        /\ Len(cr[c].requests) = 2
        /\ \A i \in DOMAIN cr[c].requests : cr[c].requests[i].ok
        /\ SessionOf(c).status = "completed"

\* The last requests.get of crawler c raised and its except clause has not finished.
InFailedFetch(self) ==
    /\ self.pc = "except"
    /\ self.requests # <<>>
    /\ ~self.requests[Len(self.requests)].ok

\* C7 - A fetch that raises ends only that page's branch: its error line is
\* logged, its links are never followed, it adds no contacts, the run is not
\* sent to the failure handler, and once the run is over every link of every
\* page whose links were followed at a depth >= 1 has been visited unless the
\* page limit was reached.
C7_FetchFailureIsBranchLocal ==
    /\ [](\A c \in DOMAIN cr :
            /\ \A i \in DOMAIN cr[c].requests :
                ~cr[c].requests[i].ok =>
                    /\ \/ InFailedFetch(cr[c]) /\ i = Len(cr[c].requests)
                       \/ \E k \in DOMAIN SessionOf(c).logs :
                            SessionOf(c).logs[k] = UrlLine(cr[c].requests[i].url, TRUE)
                    /\ UrlLine(cr[c].requests[i].url, FALSE) \notin Logged(c)
                    /\ \A k \in DOMAIN cr[c].stack :
                            cr[c].stack[k].url # cr[c].requests[i].url
            /\ cr[c].pc \in {"handler", "failwrite", "raised"} =>
                    \/ ProgressRaises(cr[c].visited, cr[c].all_contacts)
                    \/ Dedup(cr[c].all_contacts).raised
            /\ cr[c].pc = "done" =>
                    /\ SessionOf(c).status = "completed"
                    /\ \A i \in DOMAIN cr[c].requests :
                        ( /\ UrlLine(cr[c].requests[i].url, FALSE) \in Logged(c)
                          /\ cr[c].requests[i].depth >= 1 )
                        => \/ SameHostTargets(cr[c].requests[i].url) \subseteq cr[c].visited
                           \/ Cardinality(cr[c].visited) >= cr[c].max_pages)
    /\ [][\A c \in DOMAIN cr :
            /\ InFailedFetch(cr[c]) =>
                /\ cr'[c].pc \in {"loop", "dedup"}
                /\ cr'[c].stack = cr[c].stack
                /\ cr'[c].all_contacts = cr[c].all_contacts
                /\ SessionOf(c).contacts = sessions'[cr[c].session_id].contacts
            /\ InFailedFetch(cr'[c]) =>
                /\ cr'[c].all_contacts = cr[c].all_contacts
                /\ cr'[c].visited = cr[c].visited]_vars

\* A completed run in which the fetch of one link of the root raised and
\* another link of the root was fetched after it.
C7_Witness ==
    \E c \in DOMAIN cr :
        /\ cr[c].pc = "done"
        /\ SessionOf(c).status = "completed"
        /\ Len(cr[c].requests) >= 3
        /\ cr[c].requests[2].depth = cr[c].depth - 1
        /\ ~cr[c].requests[2].ok
        /\ cr[c].requests[3].depth = cr[c].depth - 1
        /\ cr[c].requests[3].ok

\* C8 - At every observation the keys of a session's persisted logs, read as
\* integers, are exactly 1..K for some K >= 0: no gap and no reuse.
C8_LogKeysContiguous ==
    \A id \in DOMAIN sessions :
        DOMAIN sessions[id].logs =
            {LogKey(k) : k \in 1..Cardinality(DOMAIN sessions[id].logs)}

\* C8 - As long as every store write succeeds the keys are 1..K, and a step
\* that adds a log entry adds the one key str(K + 1) and leaves the entries
\* already there as they are.
C8_LogKeysContiguousWhenStoreAnswers ==
    /\ [](storeUp => C8_LogKeysContiguous)
    /\ [][\A id \in DOMAIN sessions :
            LET old == sessions[id].logs
                new == sessions'[id].logs
            IN  /\ \A k \in DOMAIN old : k \in DOMAIN new /\ new[k] = old[k]
                /\ DOMAIN new # DOMAIN old =>
                    DOMAIN new = DOMAIN old \cup {LogKey(Cardinality(DOMAIN old) + 1)}]_vars

\* C9 - From one observation of a session to the next none of pages_visited,
\* total_contacts and unique_contacts decreases and no log entry disappears
\* or changes, the final completed write included.
C9_ProgressAndLogsOnlyAdvance ==
    [][\A id \in DOMAIN sessions :
        /\ id \in DOMAIN sessions'
        /\ sessions'[id].progress.pages_visited >= sessions[id].progress.pages_visited
        /\ sessions'[id].progress.total_contacts >= sessions[id].progress.total_contacts
        /\ sessions'[id].progress.unique_contacts >= sessions[id].progress.unique_contacts
        /\ \A k \in DOMAIN sessions[id].logs :
            /\ k \in DOMAIN sessions'[id].logs
            /\ sessions'[id].logs[k] = sessions[id].logs[k]]_vars

\* C9 - What does hold from one observation to the next: pages_visited and
\* total_contacts never decrease and no log entry disappears or changes.
C9_PagesTotalAndLogsOnlyAdvance ==
    [][\A id \in DOMAIN sessions :
        /\ id \in DOMAIN sessions'
        /\ sessions'[id].progress.pages_visited >= sessions[id].progress.pages_visited
        /\ sessions'[id].progress.total_contacts >= sessions[id].progress.total_contacts
        /\ \A k \in DOMAIN sessions[id].logs :
            /\ k \in DOMAIN sessions'[id].logs
            /\ sessions'[id].logs[k] = sessions[id].logs[k]]_vars

\* C10 - A run that ended by raising never leaves its session with status
\* running or completed.
C10_RaisedRunNotLeftRunning ==
    \A c \in DOMAIN cr :
        cr[c].pc = "raised" => SessionOf(c).status \notin {"running", "completed"}

\* C10 - With a store whose writes succeed, a run that ended by raising has
\* logged an Error line and left its session failed.
C10_RaisedRunIsFailedWhenStoreAnswers ==
    \A c \in DOMAIN cr :
        cr[c].pc = "raised" =>
            /\ SessionOf(c).status = "failed"
            /\ \E k \in DOMAIN SessionOf(c).logs : SessionOf(c).logs[k] = Line("Error")

\* What the run of crawler c alone makes of its session: the fields given at
\* creation, the log lines and contacts of c, and at the end of the run the
\* final state computed from c's own visited set and contact list.
OwnRunOnly(c) ==
    LET self == cr[c] IN
    /\ self.session_id \in DOMAIN sessions
    /\ LET session == sessions[self.session_id] IN
        /\ session.start_url = self.start_url
        /\ session.depth = self.depth
        /\ session.max_pages = self.max_pages
        /\ session.logs = self.log_messages
        /\ session.contacts = self.all_contacts
        /\ session.progress.pages_visited <= Cardinality(self.visited)
        /\ session.progress.total_contacts <= Len(self.all_contacts)
        /\ self.pc = "start" => session.status = "initialized"
        /\ self.pc = "raised" => session.status = "failed"
        /\ self.pc = "done" =>
            /\ session.status = "completed"
            /\ session.progress =
                [pages_visited |-> Cardinality(self.visited),
                 total_contacts |-> Len(self.all_contacts),
                 unique_contacts |-> Len(Dedup(self.all_contacts).unique_contacts)]
        /\ self.pc \notin {"start", "raised", "done"} => session.status = "running"

\* C11 - With two sessions running at once, every step of one crawler leaves
\* the other crawler's object and the other session's document as they are,
\* and each session's persisted state is at every observation what its own
\* run alone makes of it.
C11_SessionsRunIndependently ==
    /\ [](\A c \in DOMAIN cr : OwnRunOnly(c))
    /\ [][\A c \in DOMAIN cr :
            cr'[c] # cr[c] =>
                /\ \A d \in DOMAIN cr \ {c} : cr'[d] = cr[d]
                /\ \A id \in DOMAIN sessions \ {cr[c].session_id} :
                    id \in DOMAIN sessions' /\ sessions'[id] = sessions[id]]_vars

\* Both sessions are in their runs at the same time, each with two pages
\* visited, one with contacts and the other without.
C11_Witness ==
    \E c \in DOMAIN cr, d \in DOMAIN cr :
        /\ c # d
        /\ cr[c].pc = "final" /\ cr[d].pc = "final"
        /\ Cardinality(cr[c].visited) = 2 /\ Cardinality(cr[d].visited) = 2
        /\ Len(SessionOf(c).contacts) > 0
        /\ Len(SessionOf(d).contacts) = 0
        /\ SessionOf(c).logs # SessionOf(d).logs

\* The sessions a step creates, removes or changes.
Touched ==
    {id \in DOMAIN sessions \cup DOMAIN sessions' :
        \/ id \notin DOMAIN sessions
        \/ id \notin DOMAIN sessions'
        \/ sessions'[id] # sessions[id]}

\* C12 - Every store mutation, the delete included, changes the document of
\* one session only: no step removes, reverts or overwrites a field of a
\* second session.
C12_MutationTouchesOneSession ==
    [][Cardinality(Touched) <= 1]_vars

\* C12 - The writes of the runner and of the create endpoint are the ones that
\* touch one session only: every step other than the delete's write does.
C12_RunnerWriteTouchesOneSession ==
    [][deleting' = deleting => Cardinality(Touched) <= 1]_vars

\* C13 - A create-session operation returns an id under which the owner has
\* no session, so it never replaces or resets an existing session.
C13_CreateReturnsFreshId ==
    [][AnyRequest => SessionIdAt(now) \notin DOMAIN sessions]_vars

\* The mailbox an email string of the model's replies addresses.
Mailbox(email) ==
    CASE email = EmailLowerA -> "a@x"
      [] email = EmailUpperA -> "a@x"
      [] email = EmailB -> "b@x"

\* The positions of the records of a contact list that bear an email.
EmailBearing(contacts) ==
    {i \in DOMAIN contacts :
        /\ contacts[i].t = "dict"
        /\ "email" \in DOMAIN contacts[i].f
        /\ contacts[i].f.email.t = "str"
        /\ contacts[i].f.email.s # <<>>}

\* The records at the positions in `at`, in list order.
RECURSIVE Picked(_, _, _)
Picked(contacts, at, i) ==
    IF i > Len(contacts) THEN <<>>
    ELSE IF i \in at THEN <<contacts[i]>> \o Picked(contacts, at, i + 1)
    ELSE Picked(contacts, at, i + 1)

\* C14 - At completion two email-bearing contacts count as one exactly when
\* their emails are the same after lower-casing and trimming, and the first
\* occurrence of each is the one kept: the email-bearing records of the
\* finalized unique list are the first record of every mailbox, in list order,
\* and the persisted unique count is the length of that list.
C14_UniqueByNormalizedEmail ==
    \A c \in DOMAIN cr :
        cr[c].pc = "done" =>
            LET all == cr[c].all_contacts
                unique == Dedup(all).unique_contacts
                bearing == EmailBearing(all)
                first == {i \in bearing :
                            \A j \in bearing :
                                j < i => Mailbox(all[j].f.email) # Mailbox(all[i].f.email)}
            IN  /\ Picked(unique, EmailBearing(unique), 1) = Picked(all, first, 1)
                /\ Cardinality(EmailBearing(unique)) =
                        Cardinality({Mailbox(all[i].f.email) : i \in bearing})
                /\ SessionOf(c).progress.unique_contacts = Len(unique)

\* A completed run whose contacts are those of one reply, with the emails
\* "a@x", "A@X " and "b@x": two unique entries.
C14_Witness ==
    \E c \in DOMAIN cr :
        /\ cr[c].pc = "done"
        /\ SessionOf(c).status = "completed"
        /\ {cr[c].all_contacts[i].f.email : i \in EmailBearing(cr[c].all_contacts)} =
                {EmailLowerA, EmailUpperA, EmailB}
        /\ Cardinality(EmailBearing(cr[c].all_contacts)) = 3
        /\ SessionOf(c).progress.unique_contacts = 2

\* C15 - In the end-of-run dedup a record without an email is kept as it is
\* and counted: the finalized unique list holds every such record, and the
\* persisted unique count is the number of mailboxes plus the number of
\* records without an email.
C15_RecordsWithoutEmailKept ==
    \A c \in DOMAIN cr :
        cr[c].pc = "done" =>
            LET all == cr[c].all_contacts
                unique == Dedup(all).unique_contacts
                without == DOMAIN all \ EmailBearing(all)
            IN  /\ \A i \in without : \E k \in DOMAIN unique : unique[k] = all[i]
                /\ SessionOf(c).progress.unique_contacts =
                        Cardinality({Mailbox(all[i].f.email) : i \in EmailBearing(all)})
                            + Cardinality(without)

\* A contact record has a value under key.
HasValue(record, key) ==
    /\ record.t = "dict"
    /\ key \in DOMAIN record.f
    /\ Truthy(record.f[key])

\* C16 - Every record of a session's persisted contacts has a name and at
\* least one of email and phone.
C16_PersistedContactsAreValid ==
    \A id \in DOMAIN sessions :
        \A i \in DOMAIN sessions[id].contacts :
            LET record == sessions[id].contacts[i] IN
            /\ HasValue(record, "name")
            /\ HasValue(record, "email") \/ HasValue(record, "phone")

\* C17 - A reply that does not parse as JSON once the fences are stripped ends
\* only that page's branch: the page adds no contacts, its JSON Parse Error
\* line is logged under the next key, crawl returns to its caller without
\* following the page's links, and the run is not sent to the failure handler.
C17_ParseErrorIsBranchLocal ==
    /\ [](\A c \in DOMAIN cr :
            /\ cr[c].pc = "jsonerr" =>
                /\ cr[c].parsed_contacts = <<>>
                /\ SessionOf(c).contacts = cr[c].all_contacts
                /\ UrlLine(cr[c].arg.url, FALSE) \notin Logged(c)
            /\ cr[c].pc \in {"handler", "failwrite", "raised"} =>
                \/ ProgressRaises(cr[c].visited, cr[c].all_contacts)
                \/ Dedup(cr[c].all_contacts).raised
            /\ cr[c].pc = "done" => SessionOf(c).status = "completed")
    /\ [][\A c \in DOMAIN cr :
            /\ cr'[c].pc = "jsonerr" =>
                /\ cr'[c].all_contacts = cr[c].all_contacts
                /\ sessions' = sessions
            /\ cr[c].pc = "jsonerr" =>
                /\ cr'[c].pc \in {"loop", "dedup"}
                /\ cr'[c].stack = cr[c].stack
                /\ cr'[c].visited = cr[c].visited
                /\ cr'[c].all_contacts = cr[c].all_contacts
                /\ sessions'[cr[c].session_id] =
                        [SessionOf(c) EXCEPT !.logs =
                            (LogKey(cr[c].log_counter + 1) :> Line("JSON Parse Error")) @@ @]]_vars

\* A completed run in which a page was visited and logged after another
\* page's parse error.
C17_Witness ==
    \E c \in DOMAIN cr :
        /\ cr[c].pc = "done"
        /\ SessionOf(c).status = "completed"
        /\ \E m \in 1..cr[c].log_counter, n \in 1..cr[c].log_counter :
            /\ m < n
            /\ SessionOf(c).logs[LogKey(m)] = Line("JSON Parse Error")
            /\ \E u \in cr[c].visited : SessionOf(c).logs[LogKey(n)] = UrlLine(u, FALSE)

\* The reply for the page crawler c is on parsed as JSON and is no list.
ParsedNonList(self) ==
    /\ self.parsed_contacts # <<>>
    /\ self.parsed_contacts.t # "list"

\* C18 - A reply that parses as JSON and is no list is handled as a parse
\* failure: crawl goes to the parse-error clause, so the page's visit line is
\* not logged and its links are not followed.
C18_NonListIsParseFailure ==
    \A c \in DOMAIN cr : ParsedNonList(cr[c]) => cr[c].pc = "jsonerr"

\* C18 - What does hold for such a reply: it adds no contacts and writes
\* nothing to the session's contacts.
C18_NonListAddsNoContacts ==
    [][\A c \in DOMAIN cr :
        ParsedNonList(cr'[c]) /\ ~ParsedNonList(cr[c]) =>
            /\ cr'[c].all_contacts = cr[c].all_contacts
            /\ sessions' = sessions]_vars

\* C19 - No reply of the extraction collaborator makes a session end failed
\* (with a store that answers, nothing but a reply can).
C19_PayloadNeverFailsSession ==
    \A id \in DOMAIN sessions : sessions[id].status # "failed"

\* C19 - What does hold: unparseable text and a non-list value never send a
\* run to the failure handler; a run that is there has in all_contacts an
\* element that is no record, or a record whose email is no string.
C19_OnlyMalformedItemsFail ==
    \A c \in DOMAIN cr :
        cr[c].pc \in {"handler", "failwrite", "raised"} =>
            \E i \in DOMAIN cr[c].all_contacts :
                LET item == cr[c].all_contacts[i] IN
                \/ item.t # "dict"
                \/ "email" \in DOMAIN item.f /\ item.f.email.t # "str"

\* C20 - A response whose status is not 2xx is a fetch failure: crawl is in
\* its except clause, and the body has been handed neither to BeautifulSoup
\* and the block and link extraction nor to the collaborator.
C20_Non2xxIsFetchFailure ==
    \A c \in DOMAIN cr :
        (cr[c].response # <<>> /\ cr[c].response.status_code \notin 200..299) =>
            /\ cr[c].pc = "except"
            /\ cr[c].soup = <<>>
            /\ cr[c].parsed_contacts = <<>>

\* C21 - At every observation a session has an end_time exactly when its
\* status is completed: none while initialized or running, set by the write
\* of completed, never set by the write of failed.
C21_EndTimeIffCompleted ==
    \A id \in DOMAIN sessions :
        ("end_time" \in DOMAIN sessions[id]) <=> (sessions[id].status = "completed")

\* C21 - What does hold whatever the number of runs: the fields end_time and
\* status completed are written by the one final update only, and the write
\* of failed carries the status alone.
C21_EndTimeSetByCompletedWriteOnly ==
    [][\A id \in DOMAIN sessions :
        ( /\ id \in DOMAIN sessions'
          /\ "end_time" \notin DOMAIN sessions[id]
          /\ "end_time" \in DOMAIN sessions'[id] )
        => sessions'[id].status = "completed"]_vars

\* C22 - The delete endpoint answers not-found exactly when the session id is
\* not among the owner's sessions: a delete that failed for another reason
\* (unknown owner, store error) is answered with another status.
C22_NotFoundDistinctFromOtherFailures ==
    \A q \in DOMAIN deleting :
        (deleting[q].pc = "answered" /\ deleting[q].status_code = 404)
            => deleting[q].message = NotFoundMessage

\* C22 - What does hold: a delete answered with 404 has changed nothing in
\* the store, and the write of a delete answered with 200 leaves the owner
\* without that session.
C22_NotFoundChangesNothing ==
    [][\A q \in DeleteCalls :
        ( /\ q \in DOMAIN deleting'
          /\ deleting'[q].pc = "answered"
          /\ (q \notin DOMAIN deleting \/ deleting[q].pc # "answered") )
        => IF deleting'[q].status_code = 404
           THEN sessions' = sessions
           ELSE /\ deleting'[q].status_code = 200
                /\ deleting'[q].session_id \notin DOMAIN sessions'
                /\ sessions' = deleting[q].new_sessions]_vars

\* The position in the markup of page `page` of the first anchor whose href
\* joins to `link`.
MarkupIndex(page, link) ==
    CHOOSE i \in DOMAIN site[page] :
        /\ urljoin(page, site[page][i]) = link
        /\ \A j \in DOMAIN site[page] : urljoin(page, site[page][j]) = link => i <= j

\* C23 - The links of a page are recursed into in the order of their anchors
\* in the page's markup: each turn of the link loop takes, of the links it has
\* not taken yet, the one whose anchor comes first.
C23_LinksInMarkupOrder ==
    [][\A c \in DOMAIN cr :
        (cr[c].pc = "loop" /\ cr'[c].pc = "call") =>
            \A other \in Top(cr[c]).links :
                MarkupIndex(Top(cr[c]).url, cr'[c].arg.url)
                    <= MarkupIndex(Top(cr[c]).url, other)]_vars

\* C23 - What does hold: the traversal is depth-first over the link set of
\* each page: a call made from the link loop is for a same-host link of the
\* page on top of the stack, one level deeper, and is made before the loop
\* takes another link.
C23_DepthFirstOverLinkSet ==
    \A c \in DOMAIN cr :
        (cr[c].pc \in {"call", "fetch"} /\ cr[c].stack # <<>>) =>
            /\ cr[c].arg.url \in SameHostTargets(Top(cr[c]).url)
            /\ cr[c].arg.depth = Top(cr[c]).depth - 1
            /\ cr[c].arg.url \notin Top(cr[c]).links

\* The key under which crawler c logged the visit line of url.
VisitOrdinal(c, url) ==
    CHOOSE n \in 1..cr[c].log_counter :
        /\ LogKey(n) \in DOMAIN SessionOf(c).logs
        /\ SessionOf(c).logs[LogKey(n)] = UrlLine(url, FALSE)

\* C24 - Persistence follows visit order: while a page is reached through the
\* links of others, each of those pages has its visit line persisted, under a
\* key smaller than that of every page reached through it, and at the moment
\* of the fetch the contact list and the progress snapshot persisted are
\* those of everything processed so far.
C24_PersistedBeforeDescendants ==
    \A c \in DOMAIN cr :
        LET self == cr[c]
            session == SessionOf(c)
        IN  /\ \A k \in DOMAIN self.stack :
                /\ \E n \in 1..self.log_counter :
                    /\ LogKey(n) \in DOMAIN session.logs
                    /\ session.logs[LogKey(n)] = UrlLine(self.stack[k].url, FALSE)
                /\ \A m \in DOMAIN self.stack :
                    k < m => VisitOrdinal(c, self.stack[k].url)
                                < VisitOrdinal(c, self.stack[m].url)
            /\ self.pc = "progress" =>
                /\ session.logs[LogKey(self.log_counter)] = UrlLine(self.arg.url, FALSE)
                /\ \A k \in DOMAIN self.stack :
                    VisitOrdinal(c, self.stack[k].url) < self.log_counter
            /\ (self.pc = "fetch" /\ self.stack # <<>>) =>
                /\ session.contacts = self.all_contacts
                /\ session.progress.total_contacts = Len(self.all_contacts)
                /\ session.progress.pages_visited >= Len(self.stack)
                /\ UrlLine(self.arg.url, FALSE) \notin Logged(c)

\* A page with contacts has been processed and a page reached through its
\* links is about to be fetched.
C24_Witness ==
    \E c \in DOMAIN cr :
        /\ cr[c].pc = "fetch"
        /\ Len(cr[c].stack) = 2
        /\ Len(cr[c].all_contacts) > 0
        /\ SessionOf(c).progress.pages_visited = 2

\* C25 - In every observation where a session's status is completed, its
\* end_time is present, and its progress, contacts and logs are those of a
\* finished run: pages_visited is the number of urls that run visited,
\* total_contacts is the length of the persisted contacts, and logs holds
\* every line that run emitted, the FinalResults line included.
C25_CompletedIsFinalSnapshot ==
    \A id \in DOMAIN sessions :
        sessions[id].status = "completed" =>
            /\ "end_time" \in DOMAIN sessions[id]
            /\ sessions[id].progress.total_contacts = Len(sessions[id].contacts)
            /\ \E c \in DOMAIN cr :
                /\ cr[c].session_id = id
                /\ cr[c].pc = "done"
                /\ sessions[id].progress.pages_visited = Cardinality(cr[c].visited)
                /\ sessions[id].contacts = cr[c].all_contacts
                /\ sessions[id].logs = cr[c].log_messages
                /\ sessions[id].logs[LogKey(cr[c].log_counter)] = Line("FinalResults")

\* C25 - What does hold: the step that makes a session completed is one
\* update that writes status, end_time, progress, contacts and logs together,
\* from the fields of the crawler that makes it.
C25_CompletedWrittenInOneUpdate ==
    [][\A c \in DOMAIN cr :
        (cr[c].pc = "final" /\ cr'[c].pc = "done") =>
            sessions'[cr[c].session_id] =
                FinalState(cr[c]) @@ sessions[cr[c].session_id]]_vars

\* The write of status failed: it changes the status and nothing else.
FailedWriteOnly(old, new) == new = [old EXCEPT !.status = "failed"]

\* C26 - Once a session's status is completed or failed no step of a runner
\* changes its document, and the step that makes a session failed changes
\* the status alone.
C26_TerminalSessionNotWritten ==
    [][\A id \in DOMAIN sessions :
        /\ sessions[id].status \in Terminal =>
            id \in DOMAIN sessions' /\ sessions'[id] = sessions[id]
        /\ (sessions[id].status # "failed" /\ sessions'[id].status = "failed") =>
            FailedWriteOnly(sessions[id], sessions'[id])]_vars

\* C26 - What does hold: the failure handler adds one Error line under a new
\* key and then sets the status, and neither step changes the progress, the
\* contacts, the fields given at creation or a log entry already there.
C26_FailureKeepsPersistedState ==
    [][\A c \in DOMAIN cr :
        cr[c].pc \in {"handler", "failwrite"} /\ cr'[c] # cr[c] =>
            LET old == SessionOf(c)
                new == sessions'[cr[c].session_id]
            IN  /\ \A field \in DOMAIN old \ {"status", "logs"} :
                    field \in DOMAIN new /\ new[field] = old[field]
                /\ \A k \in DOMAIN old.logs :
                    k \in DOMAIN new.logs /\ new.logs[k] = old.logs[k]
                /\ Cardinality(DOMAIN new.logs \ DOMAIN old.logs) <= 1
                /\ \A k \in DOMAIN new.logs \ DOMAIN old.logs : new.logs[k] = Line("Error")
                /\ new.status # old.status =>
                    cr[c].pc = "failwrite" /\ FailedWriteOnly(old, new)]_vars

\* list `old` is a prefix of list `new`
IsPrefix(old, new) == Len(old) <= Len(new) /\ SubSeq(new, 1, Len(old)) = old

\* C27 - The persisted contacts of a session are append-only: every step
\* leaves the previously persisted list as a prefix of the new one, the final
\* completed write included, so no contact that was observed disappears.
C27_ContactsAppendOnly ==
    [][\A id \in DOMAIN sessions :
        id \in DOMAIN sessions' =>
            IsPrefix(sessions[id].contacts, sessions'[id].contacts)]_vars

\* C27 - What does hold: the list a crawler keeps only grows at its end, each
\* of its contact writes, the final one included, stores the whole raw list,
\* duplicates and records that the dedup drops included.
C27_EachRunWritesItsGrowingRawList ==
    [][\A c \in DOMAIN cr :
        /\ IsPrefix(cr[c].all_contacts, cr'[c].all_contacts)
        /\ sessions'[cr[c].session_id].contacts # sessions[cr[c].session_id].contacts =>
            \E d \in DOMAIN cr :
                /\ cr'[d] # cr[d]
                /\ sessions'[cr[c].session_id].contacts = cr'[d].all_contacts]_vars

\* C28 - A session whose delete was answered with success stays absent (no
\* session is created in these runs): no later write of a crawler puts a
\* document, whole or partial, back under its id.
C28_DeletedSessionStaysAbsent ==
    \A q \in DOMAIN deleting :
        (deleting[q].pc = "answered" /\ deleting[q].status_code = 200)
            => deleting[q].session_id \notin DOMAIN sessions

\* C29 - At most one crawler is ever started for a session, and a crawler is
\* started only while the session's persisted status is initialized.
C29_AtMostOneCrawlerPerSession ==
    /\ [](\A c \in DOMAIN cr, d \in DOMAIN cr :
            cr[c].session_id = cr[d].session_id => c = d)
    /\ [][\A c \in DOMAIN cr' \ DOMAIN cr :
            /\ cr'[c].session_id \in DOMAIN sessions
            /\ sessions[cr'[c].session_id].status = "initialized"]_vars

\* C29 - What does hold: a pass starts crawlers only for sessions whose status
\* was initialized when the pass read the store, one per session.
C29_StartedFromInitializedSnapshot ==
    /\ [](\A p \in DOMAIN orch : \A id \in DOMAIN orch[p].pending :
            orch[p].pending[id].status = "initialized")
    /\ [][\A c \in DOMAIN cr' \ DOMAIN cr :
            \E p \in DOMAIN orch :
                /\ c = <<p, cr'[c].session_id>>
                /\ cr'[c].session_id \in DOMAIN orch[p].pending
                /\ cr'[c].session_id \notin DOMAIN orch'[p].pending]_vars

\* C30 - At every observation of a session
\* progress.unique_contacts <= progress.total_contacts <= len(contacts).
C30_CountsWithinPersistedContacts ==
    \A id \in DOMAIN sessions :
        /\ sessions[id].progress.unique_contacts <= sessions[id].progress.total_contacts
        /\ sessions[id].progress.total_contacts <= Len(sessions[id].contacts)

\* C30 - What does hold whether or not store writes raise: every progress
\* snapshot has unique_contacts <= total_contacts, and total_contacts is at
\* most the length of the list the writing crawler holds.
C30_UniqueWithinTotal ==
    /\ \A id \in DOMAIN sessions :
        sessions[id].progress.unique_contacts <= sessions[id].progress.total_contacts
    /\ \A c \in DOMAIN cr :
        SessionOf(c).progress.total_contacts <= Len(cr[c].all_contacts)

====
